---- MODULE Spec2Model ----
(***************************************************************************)
(* Waters-Naccache identity based encryption (src/src/lib.rs).             *)
(*                                                                         *)
(* The three pairing groups G1, G2 and Gt of BLS12-381 are cyclic of the   *)
(* same prime order.  A group element is modelled by its discrete          *)
(* logarithm with respect to the group's generator, an integer modulo the  *)
(* prime Q (0 is the identity element); the pairing of the elements with   *)
(* logarithms a and b is the element of Gt with logarithm a*b.  Gt is      *)
(* written additively, as the source does.                                 *)
(*                                                                         *)
(* A Scalar keeps its full width: it holds the little-endian sequence of  *)
(* its 16 limbs of 16 bits (256 bits, the width of Scalar::to_bytes).  A   *)
(* point multiplied by a scalar depends on the scalar modulo the group     *)
(* order.                                                                  *)
(***************************************************************************)
EXTENDS Integers, Sequences, FiniteSets, TLC

VARIABLES
    pc,      \* the next call of the key generator / sender / receiver
    pk,      \* PublicKey returned by setup
    sk,      \* SecretKey returned by setup
    alpha,   \* the master scalar drawn inside setup (not returned)
    srcs,    \* the strings handed to Identity::derive_str, in call order
    kids,    \* the Identity values derived from srcs
    m,       \* the Message of Message::generate
    r,       \* the scalar drawn by the latest extract_usk
    usk,     \* UserSecretKey of the latest extract_usk (for kids[1])
    t,       \* the scalar drawn by the latest encrypt
    c,       \* CipherText of the latest encrypt (for kids[2])
    m2,      \* Message returned by decrypt(usk, c)
    kind,    \* serialisation: the structure type under test
    obj,     \* serialisation: the in-memory structure
    buf,     \* serialisation: the byte buffer
    bad,     \* serialisation: offsets of the group elements spoilt in buf
    dec      \* serialisation: the result of from_bytes(buf)

vars == <<pc, pk, sk, alpha, srcs, kids, m, r, usk, t, c, m2,
          kind, obj, buf, bad, dec>>

protoVars == <<pc, pk, sk, alpha, srcs, kids, m, r, usk, t, c, m2>>
codecVars == <<kind, obj, buf, bad, dec>>

----------------------------------------------------------------------------
(* Program constants. *)

HASH_BIT_LEN == 512
HASH_BYTE_LEN == HASH_BIT_LEN \div 8

BITSIZE == 32
CHUNKSIZE == BITSIZE \div 8
CHUNKS == HASH_BYTE_LEN \div CHUNKSIZE

G1SIZE == 48
G2SIZE == 96
GTSIZE == 576

PARAMETERSIZE == CHUNKS * G2SIZE
PUBLICKEYSIZE == 2 * G1SIZE + 2 * G2SIZE + PARAMETERSIZE
SECRETKEYSIZE == G2SIZE
USERSECRETKEYSIZE == G2SIZE + G1SIZE
CIPHERTEXTSIZE == GTSIZE + G1SIZE + G2SIZE

(* Bounds of the model. *)

\* The group order is the prime Primes[OrderIdx].
OrderIdx == 3
Primes == <<2, 3, 5, 7, 11, 13>>
Q == Primes[OrderIdx]

\* The random number generator returns scalars in 0..MaxScalar.
MaxScalar == 1

\* The draws of setup's loop over u repeat with period UPeriod.
UPeriod == 2

\* Identity strings are the first NumInputs entries of Inputs.
NumInputs == 2

----------------------------------------------------------------------------
(* Integers wider than TLC's 32 bits: little-endian limbs of 16 bits. *)

LIMB == 65536
SCALAR_LIMBS == 16

Zeros(n) == [i \in 1..n |-> 0]

\* Faulty variant of u32_from_le_bytes: the bytes read most significant first.
u32_from_be_bytes(b) == <<b[4] + 256 * b[3], b[2] + 256 * b[1]>>

\* u32::from_le_bytes: byte 1 is the least significant.
u32_from_le_bytes(b) == <<b[1] + 256 * b[2], b[3] + 256 * b[4]>>

\* u64::from(u32): zero extension.
u64_from_u32(x) == x \o Zeros(2)

\* LIMB^k modulo the group order.
RECURSIVE LimbPowMod(_)
LimbPowMod(k) == IF k = 0 THEN 1 % Q ELSE (LimbPowMod(k - 1) * (LIMB % Q)) % Q

LimbWeight == [i \in 1..SCALAR_LIMBS |-> LimbPowMod(i - 1)]

\* The value of 16 limbs modulo the group order.
LimbsMod(l) ==
    ( l[1] * LimbWeight[1] + l[2] * LimbWeight[2] + l[3] * LimbWeight[3]
    + l[4] * LimbWeight[4] + l[5] * LimbWeight[5] + l[6] * LimbWeight[6]
    + l[7] * LimbWeight[7] + l[8] * LimbWeight[8] + l[9] * LimbWeight[9]
    + l[10] * LimbWeight[10] + l[11] * LimbWeight[11] + l[12] * LimbWeight[12]
    + l[13] * LimbWeight[13] + l[14] * LimbWeight[14] + l[15] * LimbWeight[15]
    + l[16] * LimbWeight[16] ) % Q

\* A Scalar: its limbs, and with them its residue modulo the group order,
\* computed once when the scalar is made.
Scalar(l) == [limbs |-> l, mod |-> LimbsMod(l)]

\* Scalar::from(u64): the field element of the same integer value.
Scalar_from_u64(x) == Scalar(x \o Zeros(SCALAR_LIMBS - 4))

\* Scalar::to_bytes: 32 bytes, little endian.
Scalar_to_bytes(s) ==
    [i \in 1..(2 * SCALAR_LIMBS) |->
        IF (i % 2) = 1 THEN (s.limbs[(i + 1) \div 2] % 256)
        ELSE (s.limbs[i \div 2] \div 256)]

Scalar_zero == Scalar(Zeros(SCALAR_LIMBS))

\* The scalar of a small integer (what the generator hands out).
ScalarOf(k) == Scalar(<<k>> \o Zeros(SCALAR_LIMBS - 1))

\* The value of a scalar modulo the group order.
ScalarMod(s) == s.mod

\* Multiplication in the scalar field, as the residue of the product.
ScalarMulMod(a, b) == (ScalarMod(a) * ScalarMod(b)) % Q

----------------------------------------------------------------------------
(* The groups (bls12_381). *)

Group == 0..(Q - 1)

\* G1Affine::default(), G2Affine::default(): the identity element.
G_default == 0

PointAdd(a, b) == (a + b) % Q
PointSub(a, b) == (a + Q - b) % Q
PointMul(p, s) == (p * s.mod) % Q
pairing(a, b) == (a * b) % Q

----------------------------------------------------------------------------
(* Randomness (mod util): a point is the generator times a random scalar. *)

RandScalars == {ScalarOf(k) : k \in 0..MaxScalar}
RandPoints == 0..MaxScalar

rand_scalar(k) == ScalarOf(k)
rand_g1(k) == PointMul(1, ScalarOf(k))
rand_g2(k) == PointMul(1, ScalarOf(k))
rand_gt(k) == PointMul(pairing(1, 1), ScalarOf(k))

\* The 16 draws of setup's loop over u.  The draws are independent; the
\* model explores the scripts of the generator that repeat with period
\* UPeriod (with UPeriod = CHUNKS, every script).
UDraws == {[i \in 1..CHUNKS |-> d[((i - 1) % UPeriod) + 1]] :
             d \in [1..UPeriod -> 0..MaxScalar]}

----------------------------------------------------------------------------
(* Identity::derive. *)

\* A char is a Unicode scalar value: a code point that is not a surrogate.
is_char(ch) == ch \in 0..1114111 /\ ch \notin 55296..57343

\* &str::as_bytes: the UTF-8 encoding of a string of chars, one to four
\* bytes a char.  A value that is not a char has no encoding.
utf8_char(ch) ==
    CASE is_char(ch) /\ ch < 128 -> <<ch>>
      [] is_char(ch) /\ ch >= 128 /\ ch < 2048 ->
            <<192 + (ch \div 64), 128 + (ch % 64)>>
      [] is_char(ch) /\ ch >= 2048 /\ ch < 65536 ->
            <<224 + (ch \div 4096), 128 + ((ch \div 64) % 64),
              128 + (ch % 64)>>
      [] is_char(ch) /\ ch >= 65536 ->
            <<240 + (ch \div 262144), 128 + ((ch \div 4096) % 64),
              128 + ((ch \div 64) % 64), 128 + (ch % 64)>>

RECURSIVE as_bytes(_)
as_bytes(s) == IF s = <<>> THEN <<>> ELSE utf8_char(Head(s)) \o as_bytes(Tail(s))

\* "email:w.geraedts@sarif.nl", the identity of the tests.
ID == <<101, 109, 97, 105, 108, 58, 119, 46, 103, 101, 114, 97, 101, 100,
        116, 115, 64, 115, 97, 114, 105, 102, 46, 110, 108>>

\* The identity strings of the model: ID, "e-acute" (two bytes of UTF-8),
\* "a" followed by U+1F600 (four bytes of UTF-8), "", "a".
Inputs == <<ID, <<233>>, <<97, 128512>>, <<>>, <<97>>>>

\* tiny_keccak::sha3_512 on the byte strings of Inputs (the SHA3-512 digests).
sha3_512(b) ==
    CASE b = ID ->
         <<12, 222, 90, 13, 26, 93, 46, 211, 100, 26, 57, 125, 135, 103, 124,
           86, 233, 102, 177, 22, 73, 131, 8, 247, 152, 116, 224, 163, 201,
           11, 25, 19, 4, 164, 100, 24, 3, 65, 230, 146, 62, 65, 84, 52, 113,
           250, 199, 154, 200, 239, 50, 237, 178, 146, 246, 208, 26, 235, 49,
           35, 218, 172, 69, 11>>
      [] b = <<195, 169>> ->
         <<36, 15, 25, 123, 171, 157, 134, 210, 90, 123, 18, 171, 144, 58,
           205, 13, 249, 60, 200, 235, 37, 246, 30, 180, 163, 162, 74, 125,
           113, 10, 62, 226, 140, 25, 161, 167, 183, 13, 204, 37, 237, 128,
           3, 238, 95, 150, 173, 248, 100, 180, 209, 1, 64, 88, 136, 210,
           137, 128, 196, 69, 151, 254, 239, 193>>
      [] b = <<97, 240, 159, 152, 128>> ->
         <<201, 128, 123, 124, 3, 87, 21, 228, 244, 21, 254, 123,
           218, 203, 89, 231, 225, 136, 83, 230, 193, 46, 73, 227,
           254, 216, 165, 210, 213, 199, 25, 136, 148, 172, 35,
           27, 56, 212, 253, 196, 33, 21, 66, 165, 54, 187, 152,
           232, 19, 29, 254, 112, 218, 174, 49, 93, 38, 21, 143,
           69, 72, 19, 95, 241>>
      [] b = <<>> ->
         <<166, 159, 115, 204, 162, 58, 154, 197, 200, 181, 103, 220, 24, 90,
           117, 110, 151, 201, 130, 22, 79, 226, 88, 89, 224, 209, 220, 193,
           71, 92, 128, 166, 21, 178, 18, 58, 241, 245, 249, 76, 17, 227,
           233, 64, 44, 58, 197, 88, 245, 0, 25, 157, 149, 182, 211, 227, 1,
           117, 133, 134, 40, 29, 205, 38>>
      [] b = <<97>> ->
         <<105, 127, 45, 133, 97, 114, 203, 131, 9, 214, 184, 185, 125, 172,
           77, 227, 68, 181, 73, 212, 222, 230, 30, 223, 180, 150, 45, 134,
           152, 183, 250, 128, 63, 79, 147, 255, 36, 57, 53, 134, 226, 139,
           91, 149, 122, 195, 209, 211, 105, 66, 12, 229, 51, 50, 113, 47,
           153, 123, 211, 54, 208, 154, 176, 42>>

\* array_ref![hash, off, len]: len bytes from the 0-based offset off.
array_ref(a, off, len) == SubSeq(a, off + 1, off + len)

\* Chunk i (0-based) of the digest, as a scalar.
derive_chunk(hash, i) ==
    Scalar_from_u64(u64_from_u32(u32_from_le_bytes(
        array_ref(hash, i * CHUNKSIZE, CHUNKSIZE))))

derive(b) ==
    LET hash == sha3_512(b)
    IN  [i \in 1..CHUNKS |-> derive_chunk(hash, i - 1)]

derive_str(s) == derive(as_bytes(s))

----------------------------------------------------------------------------
(* setup, extract_usk, encrypt, decrypt. *)

Parameters_default == [i \in 1..CHUNKS |-> G_default]

PublicKey_default ==
    [g |-> G_default, g1 |-> G_default, g2 |-> G_default,
     uprime |-> G_default, u |-> Parameters_default]
SecretKey_default == [g2prime |-> G_default]
UserSecretKey_default == [d1 |-> G_default, d2 |-> G_default]
CipherText_default == [c1 |-> G_default, c2 |-> G_default, c3 |-> G_default]

\* Faulty variant of setup: the secret key built on uprime instead of g2.
setup_uprime(dg, dalpha, dg2, duprime, du) ==
    LET g == rand_g1(dg)
        a == rand_scalar(dalpha)
        g1 == PointMul(g, a)
        g2 == rand_g2(dg2)
        uprime == rand_g2(duprime)
        u == [i \in 1..CHUNKS |-> rand_g2(du[i])]
        g2prime == PointMul(uprime, a)
    IN  [pk |-> [g |-> g, g1 |-> g1, g2 |-> g2, uprime |-> uprime, u |-> u],
         sk |-> [g2prime |-> g2prime]]

\* setup, given the draws of its generator in the order it makes them:
\* g, alpha, g2, uprime, then the 16 elements of u.
setup(dg, dalpha, dg2, duprime, du) ==
    LET g == rand_g1(dg)
        a == rand_scalar(dalpha)
        g1 == PointMul(g, a)
        g2 == rand_g2(dg2)
        uprime == rand_g2(duprime)
        u == [i \in 1..CHUNKS |-> rand_g2(du[i])]
        g2prime == PointMul(g2, a)
    IN  [pk |-> [g |-> g, g1 |-> g1, g2 |-> g2, uprime |-> uprime, u |-> u],
         sk |-> [g2prime |-> g2prime]]

\* Iterator::zip ends with the shorter of the two sequences.
zip_len(u, v) == IF Len(u) < Len(v) THEN Len(u) ELSE Len(v)

\* The loop of extract_usk over pk.u zipped with the identity's chunks,
\* from the 1-based position i to n with the accumulator acc; the step
\* ucoll += ui * vi is the point addition of the point multiple, written
\* out.
RECURSIVE ucoll_loop(_, _, _, _, _)
ucoll_loop(u, v, i, n, acc) ==
    IF i > n THEN acc
    ELSE ucoll_loop(u, v, i + 1, n, (acc + u[i] * v[i].mod) % Q)

ucoll(p, v) == ucoll_loop(p.u, v, 1, zip_len(p.u, v), p.uprime)

\* Faulty variant of extract_usk: the identity left out of the key.
extract_usk_noid(p, s, v, dr) ==
    LET rr == rand_scalar(dr)
        d1 == PointAdd(s.g2prime, PointMul(p.uprime, rr))
        d2 == PointMul(p.g, rr)
    IN  [d1 |-> d1, d2 |-> d2]

\* Faulty variant of extract_usk: a fixed scalar instead of a fresh one.
extract_usk_fixed(p, s, v, dr) ==
    LET rr == ScalarOf(1)
        d1 == PointAdd(s.g2prime, PointMul(ucoll(p, v), rr))
        d2 == PointMul(p.g, rr)
    IN  [d1 |-> d1, d2 |-> d2]

extract_usk(p, s, v, dr) ==
    LET rr == rand_scalar(dr)
        d1 == PointAdd(s.g2prime, PointMul(ucoll(p, v), rr))
        d2 == PointMul(p.g, rr)
    IN  [d1 |-> d1, d2 |-> d2]

\* The loop of encrypt, written out a second time in the source.
RECURSIVE c3coll_loop(_, _, _, _, _)
c3coll_loop(u, v, i, n, acc) ==
    IF i > n THEN acc
    ELSE c3coll_loop(u, v, i + 1, n, (acc + u[i] * v[i].mod) % Q)

\* Faulty variant of c3coll: the first chunk skipped.
c3coll_skip(p, v) == c3coll_loop(p.u, v, 2, zip_len(p.u, v), p.uprime)

c3coll(p, v) == c3coll_loop(p.u, v, 1, zip_len(p.u, v), p.uprime)

\* Faulty variant of encrypt: c2 built on g1 instead of g.
encrypt_g1(p, v, msg, dt) ==
    LET tt == rand_scalar(dt)
        c1 == PointAdd(PointMul(pairing(p.g1, p.g2), tt), msg)
        c2 == PointMul(p.g1, tt)
        c3 == PointMul(c3coll(p, v), tt)
    IN  [c1 |-> c1, c2 |-> c2, c3 |-> c3]

\* A Message is modelled by the Gt element it wraps.
encrypt(p, v, msg, dt) ==
    LET tt == rand_scalar(dt)
        c1 == PointAdd(PointMul(pairing(p.g1, p.g2), tt), msg)
        c2 == PointMul(p.g, tt)
        c3 == PointMul(c3coll(p, v), tt)
    IN  [c1 |-> c1, c2 |-> c2, c3 |-> c3]

\* Faulty variant of decrypt: the two pairings exchanged.
decrypt_swapped(k, ct) ==
    LET num == pairing(ct.c2, k.d1)
        dem == pairing(k.d2, ct.c3)
    IN  PointSub(PointAdd(ct.c1, num), dem)

decrypt(k, ct) ==
    LET num == pairing(k.d2, ct.c3)
        dem == pairing(ct.c2, k.d1)
    IN  PointSub(PointAdd(ct.c1, num), dem)

Message_generate(dm) == rand_gt(dm)

----------------------------------------------------------------------------
(* The protocol run: setup, two identities, a message, a user secret key  *)
(* for the first identity, a ciphertext for the second, decryption.       *)

CodecIdle ==
    /\ kind = "none" /\ obj = <<>> /\ buf = <<>> /\ bad = {} /\ dec = <<>>

Init ==
    /\ pc = "setup"
    /\ pk = PublicKey_default
    /\ sk = SecretKey_default
    /\ alpha = Scalar_zero
    /\ srcs = <<>>
    /\ kids = <<>>
    /\ m = G_default
    /\ r = Scalar_zero
    /\ usk = UserSecretKey_default
    /\ t = Scalar_zero
    /\ c = CipherText_default
    /\ m2 = G_default
    /\ CodecIdle

Setup ==
    /\ pc = "setup"
    /\ \E dg \in RandPoints, da \in 0..MaxScalar, dg2 \in RandPoints,
          dup \in RandPoints, du \in UDraws :
          LET res == setup(dg, da, dg2, dup, du)
          IN  /\ pk' = res.pk
              /\ sk' = res.sk
              /\ alpha' = rand_scalar(da)
    /\ pc' = "derive"
    /\ UNCHANGED <<srcs, kids, m, r, usk, t, c, m2>>
    /\ UNCHANGED codecVars

Derive ==
    /\ pc = "derive"
    /\ \E j \in 1..NumInputs :
          /\ srcs' = Append(srcs, Inputs[j])
          /\ kids' = Append(kids, derive_str(Inputs[j]))
    /\ pc' = IF Len(kids) = 1 THEN "generate" ELSE "derive"
    /\ UNCHANGED <<pk, sk, alpha, m, r, usk, t, c, m2>>
    /\ UNCHANGED codecVars

Generate ==
    /\ pc = "generate"
    /\ \E dm \in RandPoints : m' = Message_generate(dm)
    /\ pc' = "extract"
    /\ UNCHANGED <<pk, sk, alpha, srcs, kids, r, usk, t, c, m2>>
    /\ UNCHANGED codecVars

ExtractUsk ==
    /\ pc = "extract"
    /\ pc' = "encrypt"
    /\ \E dr \in 0..MaxScalar :
          /\ r' = rand_scalar(dr)
          /\ usk' = extract_usk(pk, sk, kids[1], dr)
    /\ UNCHANGED <<pk, sk, alpha, srcs, kids, m, t, c, m2>>
    /\ UNCHANGED codecVars

Encrypt ==
    /\ pc = "encrypt"
    /\ pc' = "decrypt"
    /\ \E dt \in 0..MaxScalar :
          /\ t' = rand_scalar(dt)
          /\ c' = encrypt(pk, kids[2], m, dt)
    /\ UNCHANGED <<pk, sk, alpha, srcs, kids, m, r, usk, m2>>
    /\ UNCHANGED codecVars

Decrypt ==
    /\ pc = "decrypt"
    /\ m2' = decrypt(usk, c)
    /\ pc' = "done"
    /\ UNCHANGED <<pk, sk, alpha, srcs, kids, m, r, usk, t, c>>
    /\ UNCHANGED codecVars

Next == Setup \/ Derive \/ Generate \/ ExtractUsk \/ Encrypt \/ Decrypt

Spec == Init /\ [][Next]_vars

----------------------------------------------------------------------------
(* Properties of the protocol run. *)

\* U(v) = uprime + sum over the 16 chunks of u[i] * chunk[i], as a sum over
\* the index set, highest index first.
RECURSIVE WeightedSum(_, _, _)
WeightedSum(u, v, n) ==
    IF n = 0 THEN 0
    ELSE (WeightedSum(u, v, n - 1) + u[n] * ScalarMod(v[n])) % Q

USum(p, v) == (p.uprime + WeightedSum(p.u, v, CHUNKS)) % Q

Extracted == pc \in {"encrypt", "decrypt", "done"}
Encrypted == pc \in {"decrypt", "done"}
Decrypted == pc = "done"

\* r*t in the scalar field.
RT == ScalarMulMod(r, t)

\* C1: decrypting, with the key extracted for an identity, a ciphertext
\* made for the same identity returns the message that was encrypted,
\* whatever the key pair and the scalars drawn.
C1_RoundTrip == (Decrypted /\ kids[1] = kids[2]) => m2 = m

C1_Witness ==
    /\ Decrypted /\ kids[1] = kids[2] /\ m2 = m /\ m # 0
    /\ pk.g # 0 /\ pk.g1 # 0 /\ pk.g2 # 0 /\ RT # 0
    /\ USum(pk, kids[1]) # 0

\* C4 as stated: a key extracted for another identity never decrypts to
\* the message.
C4_Original == (Decrypted /\ kids[1] # kids[2]) => m2 # m

\* C4 amended: a key extracted for another identity does not decrypt to
\* the message when r*t is not zero, pk.g is not the identity element and
\* the two identities' accumulators differ.
C4_CrossIdentity ==
    ( /\ Decrypted /\ kids[1] # kids[2]
      /\ RT # 0 /\ pk.g # 0
      /\ USum(pk, kids[1]) # USum(pk, kids[2]) ) => m2 # m

C4_Witness ==
    /\ Decrypted /\ kids[1] # kids[2]
    /\ RT # 0 /\ pk.g # 0
    /\ USum(pk, kids[1]) # USum(pk, kids[2])
    /\ m2 # m

\* The keys and ciphertexts the calls of this run can return with another
\* draw of the scalar.
OtherKeys ==
    {extract_usk(pk, sk, kids[1], dr) :
        dr \in {d \in 0..MaxScalar : ScalarMod(rand_scalar(d)) # ScalarMod(r)}}
OtherCiphers ==
    {encrypt(pk, kids[2], m, dt) :
        dt \in {d \in 0..MaxScalar : ScalarMod(rand_scalar(d)) # ScalarMod(t)}}
AllKeys == {extract_usk(pk, sk, kids[1], dr) : dr \in 0..MaxScalar}
AllCiphers == {encrypt(pk, kids[2], m, dt) : dt \in 0..MaxScalar}

\* C5 as stated: another scalar always gives another key, and another
\* ciphertext.
C5_Original ==
    Decrypted => /\ \A k \in OtherKeys : k # usk
                 /\ \A x \in OtherCiphers : x # c

\* C5 amended: another scalar gives another key (another ciphertext) unless
\* pk.g and the identity's accumulator are both the identity element; every
\* such key decrypts every such ciphertext of the same identity to m.  (The
\* keys are compared when extract_usk has returned, the ciphertexts when
\* encrypt has returned.)
C5_Rerandomise ==
    /\ (pc = "encrypt" /\ (pk.g # 0 \/ USum(pk, kids[1]) # 0)) =>
          \A k \in OtherKeys : k # usk
    /\ (pc = "decrypt" /\ (pk.g # 0 \/ USum(pk, kids[2]) # 0)) =>
          \A x \in OtherCiphers : x # c
    /\ (Decrypted /\ kids[1] = kids[2]) =>
          \A k \in AllKeys, x \in AllCiphers : decrypt(k, x) = m

C5_Witness ==
    /\ Decrypted /\ kids[1] = kids[2] /\ pk.g # 0 /\ m # 0
    /\ OtherKeys # {} /\ OtherCiphers # {}
    /\ usk \in AllKeys /\ c \in AllCiphers
    /\ \A k \in OtherKeys : k # usk /\ decrypt(k, c) = m

\* The chunks of the tests' reference vector for ID, as 16-bit halves.
REFERENCE ==
    << <<56844, 3418>>, <<23834, 54062>>, <<6756, 32057>>, <<26503, 22140>>,
       <<26345, 5809>>, <<33609, 63240>>, <<29848, 41952>>, <<3017, 4889>>,
       <<41988, 6244>>, <<16643, 37606>>, <<16702, 13396>>, <<64113, 39623>>,
       <<61384, 60722>>, <<37554, 53494>>, <<60186, 9009>>, <<44250, 2885>> >>

\* u32::to_le_bytes of a value given by its halves.
HalvesToLeBytes(h) == <<h[1] % 256, h[1] \div 256, h[2] % 256, h[2] \div 256>>

\* C6: chunk i of a derived identity is, as 32 little-endian bytes, the four
\* digest bytes [4i, 4i+4) followed by 28 zero bytes; the 16 chunks cover the
\* 64 bytes of the digest in order; the identity is that of the string's
\* UTF-8 bytes; ID gives the reference vector of the tests.  (Stated for the
\* states in which derive has just returned: no later call writes kids or
\* srcs.)
C6_Derive ==
    pc \in {"derive", "generate"} =>
    \A j \in 1..Len(kids) :
        LET digest == sha3_512(as_bytes(srcs[j]))
        IN  /\ Len(digest) = HASH_BYTE_LEN
            /\ Len(kids[j]) = CHUNKS
            /\ CHUNKS * CHUNKSIZE = HASH_BYTE_LEN
            /\ \A i \in 0..(CHUNKS - 1) :
                  Scalar_to_bytes(kids[j][i + 1]) =
                      SubSeq(digest, 4 * i + 1, 4 * i + 4) \o Zeros(28)
            /\ kids[j] = derive(as_bytes(srcs[j]))
            /\ srcs[j] = ID =>
                  \A i \in 1..CHUNKS :
                      Scalar_to_bytes(kids[j][i]) =
                          HalvesToLeBytes(REFERENCE[i]) \o Zeros(28)

C6_Witness ==
    /\ pc = "generate" /\ Len(kids) = 2 /\ srcs[1] = ID /\ srcs[2] = <<233>>
    /\ kids[1] # kids[2]
    /\ as_bytes(srcs[2]) = <<195, 169>>

\* C7: the public and the secret key are bound by the one scalar alpha:
\* g1 = g*alpha and g2prime = g2*alpha, so e(g1, g2) = e(g, g2prime); u has
\* 16 elements of G2; neither key has a field holding alpha.
C7_Setup ==
    pc # "setup" =>
        /\ pk.g1 = PointMul(pk.g, alpha)
        /\ sk.g2prime = PointMul(pk.g2, alpha)
        /\ pairing(pk.g1, pk.g2) = pairing(pk.g, sk.g2prime)
        /\ DOMAIN pk.u = 1..CHUNKS
        /\ \A i \in 1..CHUNKS : pk.u[i] \in Group
        /\ DOMAIN pk = {"g", "g1", "g2", "uprime", "u"}
        /\ DOMAIN sk = {"g2prime"}

C7_Witness ==
    /\ pc = "derive" /\ ScalarMod(alpha) # 0
    /\ pk.g # 0 /\ pk.g2 # 0 /\ pk.uprime # pk.g2
    /\ pk.g1 = pk.g /\ sk.g2prime = pk.g2

\* C9: extract_usk and encrypt accumulate the same
\* U(v) = uprime + sum of u[i]*chunk[i] over all 16 chunks, and
\* d1 = g2prime + U*r, d2 = g*r, c2 = g*t, c3 = U*t.  (The two loops are
\* compared on both identities once both are derived, the key when
\* extract_usk has returned, the ciphertext when encrypt has returned: no
\* later call writes them.)
C9_Accumulator ==
    LET U1 == USum(pk, kids[1])
        U2 == USum(pk, kids[2])
    IN  /\ pc = "generate" =>
              /\ ucoll(pk, kids[1]) = U1 /\ c3coll(pk, kids[1]) = U1
              /\ ucoll(pk, kids[2]) = U2 /\ c3coll(pk, kids[2]) = U2
        /\ pc = "encrypt" =>
              /\ usk.d1 = PointAdd(sk.g2prime, PointMul(U1, r))
              /\ usk.d2 = PointMul(pk.g, r)
        /\ pc = "decrypt" =>
              /\ c.c2 = PointMul(pk.g, t)
              /\ c.c3 = PointMul(U2, t)

C9_Witness ==
    /\ pc = "decrypt" /\ ScalarMod(r) # 0 /\ ScalarMod(t) # 0 /\ pk.g # 0
    /\ USum(pk, kids[1]) # 0 /\ USum(pk, kids[1]) # pk.uprime
    /\ \E i \in 1..CHUNKS : pk.u[i] # pk.u[1]
    /\ usk.d1 # sk.g2prime /\ c.c3 # 0

\* C10: decrypt checks nothing: with a key for the identity kids[1] and a
\* ciphertext for kids[2] it returns m + e(g, U(kids[2]) - U(kids[1])) * (r*t),
\* which is m exactly when r*t = 0, or g is the identity element, or the two
\* accumulators are equal.
C10_DecryptValue ==
    Decrypted =>
        LET diff == PointSub(USum(pk, kids[2]), USum(pk, kids[1]))
        IN  /\ m2 = (m + pairing(pk.g, diff) * RT) % Q
            /\ m2 = m <=> (RT = 0 \/ pk.g = 0 \/ diff = 0)

C10_Witness ==
    /\ Decrypted /\ m2 # m /\ kids[1] # kids[2]
    /\ m2 = (m + pairing(pk.g, PointSub(USum(pk, kids[2]), USum(pk, kids[1]))) * RT) % Q

----------------------------------------------------------------------------
(* Point encodings (bls12_381) and subtle::CtOption.                       *)
(*                                                                         *)
(* A compressed point is a big-endian coordinate with three flag bits on   *)
(* top of its first byte: compressed (128), infinity (64), sign (32).  The *)
(* model's coordinate of the element with logarithm x # 0 is x; the        *)
(* identity is the point at infinity.  An encoding is valid when the       *)
(* compressed flag is set and the coordinate names an element of the       *)
(* group.  An element of Gt is written uncompressed; the model writes      *)
(* x + 1 as its first coefficient (the identity of Gt is the field's one). *)
(* A CtOption carries, besides value and is_some, the log of the point     *)
(* decodings that were performed to compute it.                            *)

CtOption_new(value, is_some, log) ==
    [value |-> value, is_some |-> is_some, log |-> log]

Choice_and(a, b) == IF a = 1 /\ b = 1 THEN 1 ELSE 0

\* T::conditional_select(a, b, choice): b when choice is 1.
conditional_select(a, b, choice) == IF choice = 1 THEN b ELSE a

\* The argument CtOption::map and CtOption::and_then hand to their closure:
\* the value, or the type's default when the option is absent.
CtOption_arg(o, dflt) == conditional_select(dflt, o.value, o.is_some)

\* CtOption::map, given the closure's result fv on CtOption_arg.
CtOption_map(o, fv) == CtOption_new(fv, o.is_some, o.log)

\* CtOption::and_then, given the closure's result tmp on CtOption_arg: the
\* closure has run in any case, and the flags are and-ed.
CtOption_and_then(o, tmp) ==
    CtOption_new(tmp.value, Choice_and(tmp.is_some, o.is_some), o.log \o tmp.log)

Point_to_compressed(x, n) ==
    [i \in 1..n |->
        IF i = 1 THEN 128 + (IF x = 0 THEN 64 ELSE 0)
        ELSE IF i = n THEN x ELSE 0]

Point_from_compressed(b, n, tag) ==
    LET compressed == b[1] >= 128
        infinity == ((b[1] \div 64) % 2) = 1
        sign == ((b[1] \div 32) % 2) = 1
        highzero == (b[1] % 32) = 0 /\ \A i \in 2..(n - 1) : b[i] = 0
        x == b[n]
        ok == /\ compressed /\ ~sign /\ highzero
              /\ IF infinity THEN x = 0 ELSE x \in 1..(Q - 1)
    IN  CtOption_new(x % Q, IF ok THEN 1 ELSE 0, <<tag>>)

G1Affine_to_compressed(x) == Point_to_compressed(x, G1SIZE)
G2Affine_to_compressed(x) == Point_to_compressed(x, G2SIZE)
G1Affine_from_compressed(b) == Point_from_compressed(b, G1SIZE, "G1")
G2Affine_from_compressed(b) == Point_from_compressed(b, G2SIZE, "G2")

Gt_to_uncompressed(x) == [i \in 1..GTSIZE |-> IF i = G1SIZE THEN x + 1 ELSE 0]

Gt_from_uncompressed(b) ==
    LET ok == /\ b[G1SIZE] \in 1..Q
              /\ \A i \in 1..GTSIZE : i # G1SIZE => b[i] = 0
    IN  CtOption_new((b[G1SIZE] + Q - 1) % Q, IF ok THEN 1 ELSE 0, <<"Gt">>)

----------------------------------------------------------------------------
(* to_bytes and from_bytes of the structures. *)

RECURSIVE Parameters_to_bytes_loop(_, _)
Parameters_to_bytes_loop(p, i) ==
    IF i = CHUNKS THEN <<>>
    ELSE G2Affine_to_compressed(p[i + 1]) \o Parameters_to_bytes_loop(p, i + 1)

Parameters_to_bytes(p) == Parameters_to_bytes_loop(p, 0)

\* The loop of Parameters::from_bytes from the 0-based index i.
RECURSIVE Parameters_from_bytes_loop(_, _, _, _, _)
Parameters_from_bytes_loop(bytes, i, res, is_some, log) ==
    IF i = CHUNKS THEN CtOption_new(res, is_some, log)
    ELSE LET d == G2Affine_from_compressed(array_ref(bytes, i * G2SIZE, G2SIZE))
             s == conditional_select(G_default, d.value, d.is_some)
         IN  Parameters_from_bytes_loop(bytes, i + 1, [res EXCEPT ![i + 1] = s],
                                        Choice_and(is_some, d.is_some), log \o d.log)

\* Faulty variant of the loop: is_some assigned instead of and-ed.
RECURSIVE Parameters_from_bytes_assign(_, _, _, _, _)
Parameters_from_bytes_assign(bytes, i, res, is_some, log) ==
    IF i = CHUNKS THEN CtOption_new(res, is_some, log)
    ELSE LET d == G2Affine_from_compressed(array_ref(bytes, i * G2SIZE, G2SIZE))
             s == conditional_select(G_default, d.value, d.is_some)
         IN  Parameters_from_bytes_assign(bytes, i + 1, [res EXCEPT ![i + 1] = s],
                                          d.is_some, log \o d.log)

Parameters_from_bytes_lastonly(bytes) ==
    Parameters_from_bytes_assign(bytes, 0, Parameters_default, 1, <<>>)

\* Faulty variant of the loop: it stops at the first invalid point.
RECURSIVE Parameters_from_bytes_break(_, _, _, _, _)
Parameters_from_bytes_break(bytes, i, res, is_some, log) ==
    IF i = CHUNKS \/ is_some = 0 THEN CtOption_new(res, is_some, log)
    ELSE LET d == G2Affine_from_compressed(array_ref(bytes, i * G2SIZE, G2SIZE))
             s == conditional_select(G_default, d.value, d.is_some)
         IN  Parameters_from_bytes_break(bytes, i + 1, [res EXCEPT ![i + 1] = s],
                                         Choice_and(is_some, d.is_some), log \o d.log)

Parameters_from_bytes_earlyexit(bytes) ==
    Parameters_from_bytes_break(bytes, 0, Parameters_default, 1, <<>>)

Parameters_from_bytes(bytes) ==
    Parameters_from_bytes_loop(bytes, 0, Parameters_default, 1, <<>>)

\* Faulty variant of PublicKey::to_bytes: g1 written before g.
PublicKey_to_bytes_swapped(p) ==
    G1Affine_to_compressed(p.g1) \o G1Affine_to_compressed(p.g)
        \o G2Affine_to_compressed(p.g2) \o G2Affine_to_compressed(p.uprime)
        \o Parameters_to_bytes(p.u)

PublicKey_to_bytes(p) ==
    G1Affine_to_compressed(p.g) \o G1Affine_to_compressed(p.g1)
        \o G2Affine_to_compressed(p.g2) \o G2Affine_to_compressed(p.uprime)
        \o Parameters_to_bytes(p.u)

PublicKey_from_bytes(bytes) ==
    LET g == G1Affine_from_compressed(array_ref(bytes, 0, G1SIZE))
        g1 == G1Affine_from_compressed(array_ref(bytes, G1SIZE, G1SIZE))
        g2 == G2Affine_from_compressed(array_ref(bytes, 2 * G1SIZE, G2SIZE))
        uprime == G2Affine_from_compressed(
                      array_ref(bytes, 2 * G1SIZE + G2SIZE, G2SIZE))
        u == Parameters_from_bytes(
                 array_ref(bytes, 2 * G1SIZE + 2 * G2SIZE, PARAMETERSIZE))
        gv == CtOption_arg(g, G_default)
        g1v == CtOption_arg(g1, G_default)
        g2v == CtOption_arg(g2, G_default)
        uprimev == CtOption_arg(uprime, G_default)
        uv == CtOption_arg(u, Parameters_default)
    IN  CtOption_and_then(g,
          CtOption_and_then(g1,
            CtOption_and_then(g2,
              CtOption_and_then(uprime,
                CtOption_map(u, [g |-> gv, g1 |-> g1v, g2 |-> g2v,
                                 uprime |-> uprimev, u |-> uv])))))

SecretKey_to_bytes(k) == G2Affine_to_compressed(k.g2prime)

SecretKey_from_bytes(bytes) ==
    LET d == G2Affine_from_compressed(bytes)
    IN  CtOption_map(d, [g2prime |-> CtOption_arg(d, G_default)])

UserSecretKey_to_bytes(k) ==
    G2Affine_to_compressed(k.d1) \o G1Affine_to_compressed(k.d2)

UserSecretKey_from_bytes(bytes) ==
    LET d1 == G2Affine_from_compressed(array_ref(bytes, 0, G2SIZE))
        d2 == G1Affine_from_compressed(array_ref(bytes, G2SIZE, G1SIZE))
        d1v == CtOption_arg(d1, G_default)
        d2v == CtOption_arg(d2, G_default)
    IN  CtOption_and_then(d1, CtOption_map(d2, [d1 |-> d1v, d2 |-> d2v]))

CipherText_to_bytes(x) ==
    Gt_to_uncompressed(x.c1) \o G1Affine_to_compressed(x.c2)
        \o G2Affine_to_compressed(x.c3)

CipherText_from_bytes(bytes) ==
    LET c1 == Gt_from_uncompressed(array_ref(bytes, 0, GTSIZE))
        c2 == G1Affine_from_compressed(array_ref(bytes, GTSIZE, G1SIZE))
        c3 == G2Affine_from_compressed(array_ref(bytes, GTSIZE + G1SIZE, G2SIZE))
        c1v == CtOption_arg(c1, G_default)
        c2v == CtOption_arg(c2, G_default)
        c3v == CtOption_arg(c3, G_default)
    IN  CtOption_and_then(c1,
          CtOption_and_then(c2,
            CtOption_map(c3, [c1 |-> c1v, c2 |-> c2v, c3 |-> c3v])))

Message_to_bytes(x) == Gt_to_uncompressed(x)

Message_from_bytes(bytes) ==
    LET d == Gt_from_uncompressed(bytes)
    IN  CtOption_map(d, CtOption_arg(d, G_default))

----------------------------------------------------------------------------
(* Serialisation runs: a structure is written with to_bytes, group         *)
(* elements of the buffer may be spoilt, and the buffer is read with       *)
(* from_bytes.                                                             *)

Kinds == {"Parameters", "PublicKey", "SecretKey", "UserSecretKey",
          "CipherText", "Message"}

\* The structures of the model, one per kind and k: neighbouring fields
\* hold different elements, and every field is the identity for some k.
SampleParameters(k) == [i \in 1..CHUNKS |-> (k + i) % Q]

Sample(kd, k) ==
    CASE kd = "Parameters" -> SampleParameters(k)
      [] kd = "PublicKey" ->
            [g |-> k, g1 |-> (k + 1) % Q, g2 |-> (k + 2) % Q,
             uprime |-> (k + 3) % Q, u |-> SampleParameters(k + 3)]
      [] kd = "SecretKey" -> [g2prime |-> k]
      [] kd = "UserSecretKey" -> [d1 |-> k, d2 |-> (k + 1) % Q]
      [] kd = "CipherText" -> [c1 |-> k, c2 |-> (k + 1) % Q, c3 |-> (k + 2) % Q]
      [] kd = "Message" -> k

to_bytes(kd, x) ==
    CASE kd = "Parameters" -> Parameters_to_bytes(x)
      [] kd = "PublicKey" -> PublicKey_to_bytes(x)
      [] kd = "SecretKey" -> SecretKey_to_bytes(x)
      [] kd = "UserSecretKey" -> UserSecretKey_to_bytes(x)
      [] kd = "CipherText" -> CipherText_to_bytes(x)
      [] kd = "Message" -> Message_to_bytes(x)

from_bytes(kd, bytes) ==
    CASE kd = "Parameters" -> Parameters_from_bytes(bytes)
      [] kd = "PublicKey" -> PublicKey_from_bytes(bytes)
      [] kd = "SecretKey" -> SecretKey_from_bytes(bytes)
      [] kd = "UserSecretKey" -> UserSecretKey_from_bytes(bytes)
      [] kd = "CipherText" -> CipherText_from_bytes(bytes)
      [] kd = "Message" -> Message_from_bytes(bytes)

\* The layout of the encodings: per structure the group elements in
\* order, each with its 0-based offset, its length and its group.
Field(off, len, ty) == [off |-> off, len |-> len, ty |-> ty]

ParameterFields(base) ==
    [i \in 1..CHUNKS |-> Field(base + (i - 1) * G2SIZE, G2SIZE, "G2")]

Layout(kd) ==
    CASE kd = "Parameters" -> ParameterFields(0)
      [] kd = "PublicKey" ->
            <<Field(0, 48, "G1"), Field(48, 48, "G1"), Field(96, 96, "G2"),
              Field(192, 96, "G2")>> \o ParameterFields(288)
      [] kd = "SecretKey" -> <<Field(0, 96, "G2")>>
      [] kd = "UserSecretKey" -> <<Field(0, 96, "G2"), Field(96, 48, "G1")>>
      [] kd = "CipherText" ->
            <<Field(0, 576, "Gt"), Field(576, 48, "G1"), Field(624, 96, "G2")>>
      [] kd = "Message" -> <<Field(0, 576, "Gt")>>

EncodedSize(kd) ==
    CASE kd = "Parameters" -> 1536
      [] kd = "PublicKey" -> 1824
      [] kd = "SecretKey" -> 96
      [] kd = "UserSecretKey" -> 144
      [] kd = "CipherText" -> 720
      [] kd = "Message" -> 576

\* The group elements of a structure, in the order of its layout.
Elements(kd, x) ==
    CASE kd = "Parameters" -> x
      [] kd = "PublicKey" -> <<x.g, x.g1, x.g2, x.uprime>> \o x.u
      [] kd = "SecretKey" -> <<x.g2prime>>
      [] kd = "UserSecretKey" -> <<x.d1, x.d2>>
      [] kd = "CipherText" -> <<x.c1, x.c2, x.c3>>
      [] kd = "Message" -> <<x>>

\* The ways an encoded element is spoilt: its first byte loses the
\* compressed flag (Gt: is out of range), its coordinate names no element of
\* the group, or a byte that must be zero is set.
Spoils == {"flag", "coordinate", "high"}

Spoil(bytes, f, how) ==
    CASE how = "flag" ->
            [bytes EXCEPT ![f.off + 1] = IF f.ty = "Gt" THEN 255 ELSE @ - 128]
      [] how = "coordinate" ->
            [bytes EXCEPT ![f.off + (IF f.ty = "Gt" THEN G1SIZE ELSE f.len)] = Q + 1]
      [] how = "high" -> [bytes EXCEPT ![f.off + 2] = 1]

\* At most MaxBad group elements of a buffer are spoilt.
MaxBad == 1

NoResult == <<>>

ProtoIdle ==
    /\ pc = "setup"
    /\ pk = PublicKey_default
    /\ sk = SecretKey_default
    /\ alpha = Scalar_zero
    /\ srcs = <<>>
    /\ kids = <<>>
    /\ m = G_default
    /\ r = Scalar_zero
    /\ usk = UserSecretKey_default
    /\ t = Scalar_zero
    /\ c = CipherText_default
    /\ m2 = G_default

InitCodec ==
    /\ ProtoIdle
    /\ kind \in Kinds
    /\ \E k \in Group : obj = Sample(kind, k)
    /\ buf = <<>>
    /\ bad = {}
    /\ dec = NoResult

ToBytes ==
    /\ kind \in Kinds
    /\ buf = <<>>
    /\ buf' = to_bytes(kind, obj)
    /\ UNCHANGED <<kind, obj, bad, dec>>
    /\ UNCHANGED protoVars

Corrupt ==
    /\ buf # <<>>
    /\ dec = NoResult
    /\ Cardinality(bad) < MaxBad
    /\ \E i \in (1..Len(Layout(kind))) \ bad, how \in Spoils :
          /\ buf' = Spoil(buf, Layout(kind)[i], how)
          /\ bad' = bad \cup {i}
    /\ UNCHANGED <<kind, obj, dec>>
    /\ UNCHANGED protoVars

FromBytes ==
    /\ buf # <<>>
    /\ dec = NoResult
    /\ dec' = from_bytes(kind, buf)
    /\ UNCHANGED <<kind, obj, buf, bad>>
    /\ UNCHANGED protoVars

NextCodec == ToBytes \/ Corrupt \/ FromBytes

SpecCodec == InitCodec /\ [][NextCodec]_vars

----------------------------------------------------------------------------
(* Properties of the serialisation runs. *)

Decoded == dec # NoResult

\* The decoding of the group element in field f of the buffer, on its own.
DecodeField(bytes, f) ==
    LET seg == SubSeq(bytes, f.off + 1, f.off + f.len)
    IN  CASE f.ty = "G1" -> G1Affine_from_compressed(seg)
          [] f.ty = "G2" -> G2Affine_from_compressed(seg)
          [] f.ty = "Gt" -> Gt_from_uncompressed(seg)

FieldFlags(kd, bytes) ==
    [i \in 1..Len(Layout(kd)) |-> DecodeField(bytes, Layout(kd)[i]).is_some]

\* C2: from_bytes(to_bytes(x)) is present and equal to x for each of the six
\* structures; the buffer has the structure's encoded size and holds every
\* group element at its place of the layout.
C2_SerialiseRoundTrip ==
    (Decoded /\ bad = {}) =>
        /\ dec.is_some = 1
        /\ dec.value = obj
        /\ Len(buf) = EncodedSize(kind)
        /\ \A i \in 1..Len(Layout(kind)) :
              LET d == DecodeField(buf, Layout(kind)[i])
              IN  d.is_some = 1 /\ d.value = Elements(kind, obj)[i]

C2_Witness ==
    /\ Decoded /\ bad = {} /\ kind = "PublicKey"
    /\ obj.g # obj.g1 /\ obj.g = 0 /\ obj.u[1] # obj.u[2]
    /\ dec.is_some = 1 /\ dec.value = obj

\* C3: from_bytes is absent when a group element of the buffer is invalid,
\* whichever it is, and present only when every element decodes.
C3_DecodeRejects ==
    Decoded =>
        /\ bad # {} => dec.is_some = 0
        /\ dec.is_some = 1 =>
              /\ \A i \in 1..Len(Layout(kind)) : FieldFlags(kind, buf)[i] = 1
              /\ dec.value = obj
        /\ dec.is_some \in {0, 1}

C3_Witness ==
    /\ Decoded /\ kind = "PublicKey" /\ bad = {7}
    /\ dec.is_some = 0
    /\ FieldFlags(kind, buf)[7] = 0 /\ FieldFlags(kind, buf)[20] = 1

\* The point decodings from_bytes makes for a structure, in order.
FullLog(kd) == [i \in 1..Len(Layout(kd)) |-> Layout(kd)[i].ty]

\* C8: from_bytes decodes every group element of the buffer, in the same
\* order for every buffer, also after an invalid one; its flag is the
\* conjunction of the decodings' flags.
C8_NoEarlyExit ==
    Decoded =>
        /\ dec.log = FullLog(kind)
        /\ dec.is_some = 1 <=> \A i \in 1..Len(Layout(kind)) : FieldFlags(kind, buf)[i] = 1

C8_Witness ==
    /\ Decoded /\ kind = "PublicKey" /\ bad = {1}
    /\ dec.is_some = 0 /\ Len(dec.log) = 20

====
